---- MODULE Spec2Model ----
(***************************************************************************)
(* Download orchestration of descarga_datos: DataDownloader                *)
(* (core/downloader.py), its retry coordinator, result cache, validator    *)
(* and performance monitor, the batched fan-out download_multiple_symbols, *)
(* async_download_trades, and the run loop of main (main.py).              *)
(*                                                                         *)
(* Concurrency is cooperative (asyncio): a coroutine runs without          *)
(* interruption from one await to the next, so every action below is the   *)
(* whole run of a coroutine between two suspension points.                 *)
(*                                                                         *)
(* utils/retry_manager.py, utils/cache_manager.py, utils/data_validator.py *)
(* and utils/monitoring.py are not among the sources; their operators are  *)
(* written from the specification (sections 4.2 to 4.5).                   *)
(***************************************************************************)
EXTENDS Integers, Sequences, FiniteSets, TLC

(***************************************************************************)
(* Bounds of the model                                                     *)
(***************************************************************************)
\* config.max_retries is drawn from 1..MaxRetriesCfg
MaxRetriesCfg == 3
\* number of sequential calls of async_download_ohlcv in Spec
MaxCalls == 3
\* length of the symbol list given to download_multiple_symbols
NumSymbols == 3
\* batch_size is drawn from 1..MaxBatch
MaxBatch == 2
\* the clock advances in steps of TickMinutes up to MaxNow (minutes)
TickMinutes == 15
MaxNow == 45

\* config.retry_delay is drawn from this set (5 is the default of config.py)
RetryDelays == {5, 40}
Symbols == {"A", "B"}

\* `limit` of a request: at most this many rows are asked of the gateway
MaxLimit == 2

\* config.exchanges names these; config.active_exchange is the first
ExchangeNames == {"binance", "kraken"}
ActiveExchange == "binance"
Timeframes == {"1h", "1d"}

\* The identity of a cached series: (exchange_name, symbol, timeframe)
Keys == ExchangeNames \X Symbols \X Timeframes

(***************************************************************************)
(* Values                                                                  *)
(***************************************************************************)
\* Optional values: None is <<>>, a present value x is <<x>>
None == <<>>
Some(x) == <<x>>

Min(a, b) == IF a <= b THEN a ELSE b

RECURSIVE Pow2(_)
Pow2(n) == IF n <= 0 THEN 1 ELSE 2 * Pow2(n - 1)

Row(ts, o, h, l, c, v) ==
    [timestamp |-> ts, open |-> o, high |-> h, low |-> l, close |-> c, volume |-> v]

\* What exchange.fetch_ohlcv can return: no rows, one or two well-formed rows,
\* a row with high < low
GoodOne == << Row(1, 4, 5, 3, 4, 1) >>
GoodTwo == << Row(1, 4, 5, 3, 4, 1), Row(2, 4, 6, 4, 5, 0) >>
BadOhlc == << Row(1, 4, 2, 3, 4, 1) >>
GatewayRows == {<<>>, GoodOne, GoodTwo, BadOhlc}

\* What an awaited exchange.fetch_ohlcv can do: return rows or raise
FetchOutcomes ==
    {[raises |-> "TransientFetchError", rows |-> <<>>],
     [raises |-> "PermanentFetchError", rows |-> <<>>]}
    \cup {[raises |-> "", rows |-> r] : r \in GatewayRows}

VARIABLES
    max_retries,   \* config.max_retries
    retry_delay,   \* config.retry_delay
    now,           \* wall clock, minutes
    cache,         \* CacheManager: key -> None or Some([data, ts])
    symbols,       \* the symbols of the running call(s), one task each
    tasks,         \* per task: the state of its async_download_ohlcv call
    batch_size,    \* download_multiple_symbols: batch_size
    dm,            \* download_multiple_symbols: [pc, i, k]
    results,       \* download_multiple_symbols: results, symbol -> None or Some(data)
    calls,         \* number of direct calls made so far
    exchanges,     \* self.exchanges: name -> [there, closes]
    run,           \* main(): [pc, default_symbols, idx, ci, err, processed]
    trades         \* the running call of async_download_trades

vars == <<max_retries, retry_delay, now, cache, symbols, tasks, batch_size, dm,
          results, calls, exchanges, run, trades>>

(***************************************************************************)
(* Data Validator (specification 4.4)                                      *)
(***************************************************************************)
RowOhlcBad(r) ==
    ~(r.low <= r.high /\ r.low <= r.open /\ r.open <= r.high
      /\ r.low <= r.close /\ r.close <= r.high)

CountOhlc(df) == Cardinality({i \in 1..Len(df) : RowOhlcBad(df[i])})
CountNegVolume(df) == Cardinality({i \in 1..Len(df) : df[i].volume < 0})
CountTsOrder(df) ==
    Cardinality({i \in 2..Len(df) : df[i].timestamp <= df[i-1].timestamp})

\* The message of a check when it is violated, nothing otherwise
ErrorIf(violated, msg) == IF violated THEN <<msg>> ELSE <<>>

validate_ohlcv_data(df) ==
    LET stats == [rows |-> Len(df), ohlc_violations |-> CountOhlc(df),
                  negative_volume |-> CountNegVolume(df),
                  timestamp_violations |-> CountTsOrder(df)]
    IN  [passed |-> Len(df) > 0 /\ stats.ohlc_violations = 0
                    /\ stats.negative_volume = 0 /\ stats.timestamp_violations = 0,
         errors |-> ErrorIf(Len(df) = 0, "empty dataset")
                    \o ErrorIf(stats.ohlc_violations > 0, "OHLC consistency")
                    \o ErrorIf(stats.negative_volume > 0, "negative volume")
                    \o ErrorIf(stats.timestamp_violations > 0, "timestamp order"),
         stats |-> stats]

(***************************************************************************)
(* Performance Monitor (specification 4.5): the operation records          *)
(***************************************************************************)
\* The record that start_operation creates
NewRecord ==
    [rows_downloaded |-> 0, data_validation_passed |-> None, errors |-> <<>>,
     completed |-> FALSE, success |-> FALSE, completions |-> 0]

\* start_operation appends a record; its position is the operation_id
start_operation(ops) == Append(ops, NewRecord)

\* update_metrics merges the named fields into the record; unknown id: nothing
update_metrics(ops, id, fields) ==
    IF id \notin DOMAIN ops THEN ops
    ELSE [ops EXCEPT ![id] =
             [f \in DOMAIN @ |-> IF f \in DOMAIN fields THEN fields[f] ELSE @[f]]]

\* complete_operation sets the end of the operation and its success
complete_operation(ops, id, success) ==
    IF id \notin DOMAIN ops THEN ops
    ELSE [ops EXCEPT ![id].completed = TRUE, ![id].success = success,
                     ![id].completions = @ + 1]

(***************************************************************************)
(* Result Cache (specification 4.3)                                        *)
(***************************************************************************)
\* Variant: max_age=timedelta(hours=1)
max_age_hour == 2 * 30

\* max_age=timedelta(minutes=30), in minutes
max_age == 30

get_from_cache(c, key, t) ==
    IF c[key] = None THEN None
    ELSE IF t - c[key][1].ts > max_age THEN None
    ELSE Some(c[key][1].data)

save_to_cache(c, df, key, t) ==
    [c EXCEPT ![key] = Some([data |-> df, ts |-> t])]

\* The store after get_from_cache: a lookup changes nothing, a stale entry is a
\* miss and stays where it is until a put overwrites it
store_after_get(c, key, t) == c


(***************************************************************************)
(* Retry Coordinator (specification 4.2), built by DataDownloader.__init__ *)
(***************************************************************************)
\* Variant: RetryManager built with its default max_retries, not the configured one
RetryManagerArgsDefaultRetries ==
    [max_retries |-> 3, base_delay |-> retry_delay, max_delay |-> 60]

\* Variant: base_delay and max_delay given in the wrong order
RetryManagerArgsSwapped ==
    [max_retries |-> max_retries, base_delay |-> 60, max_delay |-> retry_delay]

\* RetryManager(max_retries=config.max_retries, base_delay=config.retry_delay,
\*              max_delay=60.0)
RetryManagerArgs ==
    [max_retries |-> max_retries, base_delay |-> retry_delay, max_delay |-> 60]

\* min(base_delay * 2^(attempt-1), max_delay)
BackoffDelay(attempt) ==
    Min(RetryManagerArgs.base_delay * Pow2(attempt - 1), RetryManagerArgs.max_delay)

\* Only a PermanentFetchError stops the retries at once
IsRetryable(err) == err # "PermanentFetchError"

\* The operation raised err in attempt tk.attempt: abort, give up, or wait.
OnOperationError(tk, err) ==
    IF ~IsRetryable(err)
    THEN [tk EXCEPT !.pc = "raised", !.err = err, !.trace = Append(@, "FAILED")]
    ELSE IF tk.attempt >= RetryManagerArgs.max_retries
    THEN [tk EXCEPT !.pc = "raised", !.err = "RetriesExhaustedError",
                    !.trace = Append(@, "FAILED")]
    ELSE [tk EXCEPT !.pc = "backoff", !.waits = Append(@, BackoffDelay(tk.attempt))]

(***************************************************************************)
(* DataDownloader.async_download_ohlcv                                     *)
(***************************************************************************)
\* What a request has done so far. fetchLog: what each awaited fetch_ohlcv did;
\* seen, seenAt: the cache entry of the key and the time when the call started;
\* csvRows: the data rows of the key's CSV file as this request last wrote it;
\* dbRows: the rows this request inserted into the key's table; saveErrors: the
\* failed writes that were logged; putAt: the time of its save_to_cache;
\* ops: the operation records it started in the monitor, by operation_id
NewTask(uc) ==
    [pc |-> "created", use_cache |-> uc, exchange_name |-> ActiveExchange,
     timeframe |-> "1h", limit |-> MaxLimit, attempt |-> 0, fetches |-> 0,
     csvWrites |-> 0, dbWrites |-> 0, csvRows |-> None, dbRows |-> 0,
     saveErrors |-> 0, puts |-> 0, putAt |-> None, waits |-> <<>>, trace |-> <<>>,
     ret |-> None, err |-> "", fetchLog |-> <<>>, seen |-> None, seenAt |-> 0,
     ops |-> <<>>]

Unborn == [NewTask(TRUE) EXCEPT !.pc = "unborn"]

Terminal(tk) == tk.pc \in {"returned", "raised"}

\* Variant: the cache calls are given the symbol only
KeyOfSymbolOnly(tk, symbol) == <<ActiveExchange, symbol, "1h">>

\* The arguments (exchange_name, symbol, timeframe) of the cache calls
KeyOf(tk, symbol) == <<tk.exchange_name, symbol, tk.timeframe>>

\* Variant: the cache is never consulted
CacheLookupSkipped(uc, c, key, t) == None

\* if use_cache: cached_data = self.cache.get_from_cache(...)
CacheLookup(uc, c, key, t) ==
    IF uc THEN get_from_cache(c, key, t) ELSE None

\* Variant: after a miss the orchestrator deletes the entry of the key
CacheAfterLookupEvicting(tk, c, symbol, t) ==
    IF tk.use_cache /\ get_from_cache(c, KeyOf(tk, symbol), t) = None
    THEN [c EXCEPT ![KeyOf(tk, symbol)] = None]
    ELSE c

\* The cache store once the lookup of an attempt is over: the orchestrator only
\* calls get_from_cache
CacheAfterLookup(tk, c, symbol, t) ==
    IF tk.use_cache THEN store_after_get(c, KeyOf(tk, symbol), t) ELSE c

\* Variant: one operation_id for the whole request, taken at its first attempt
OperationIdOfRequest(tk) == 1

\* operation_id = self.monitor.start_operation(symbol, exchange_name): the id of
\* the record that the running attempt started
OperationId(tk) == Len(tk.ops)

\* self.monitor.update_metrics(operation_id, **fields)
UpdateMetrics(tk, fields) ==
    [tk EXCEPT !.ops = update_metrics(@, OperationId(tk), fields)]

\* self.monitor.complete_operation(operation_id, success=...)
CompleteOperation(tk, success) ==
    [tk EXCEPT !.ops = complete_operation(@, OperationId(tk), success)]

\* return data, stats
Return(tk, data, stats) ==
    [tk EXCEPT !.pc = "returned", !.ret = Some([data |-> data, stats |-> stats]),
               !.trace = Append(@, "DONE")]

\* Variant: the handler raises a new generic exception, raise Exception(str(e))
ReraiseWrapped(e) == "Exception"

\* except Exception as e: update_metrics; complete_operation; raise
Reraise(e) == e

ExceptHandler(tk, e) ==
    OnOperationError(CompleteOperation(UpdateMetrics(tk, [errors |-> <<e>>]), FALSE),
                     Reraise(e))

\* self._get_exchange(exchange_name): raises ValueError when self.exchanges has
\* no instance under the name
GetExchangeRaises(exchange_name) == ~exchanges[exchange_name].there

\* One attempt, from the entry of the function to its first await, its return or
\* its raise: start_operation, the cache lookup, and on a miss _get_exchange and
\* the issue of fetch_ohlcv.
Attempt(tk, c, symbol, t) ==
    LET t1 == [tk EXCEPT !.attempt = @ + 1, !.ops = start_operation(@),
                         !.trace = Append(@, "CHECK_CACHE")]
        cached == CacheLookup(tk.use_cache, c, KeyOf(tk, symbol), t)
    IN  IF cached # None
        THEN Return(t1, cached, Some(validate_ohlcv_data(cached[1]).stats))
        ELSE IF GetExchangeRaises(tk.exchange_name)
        THEN ExceptHandler(t1, "ValueError")
        ELSE [t1 EXCEPT !.pc = "fetching", !.fetches = @ + 1,
                        !.trace = Append(@, "FETCHING")]

\* Variant: the data is saved whatever the validation says
ShouldPersistAlways(vr) == TRUE

\* Variant: the test of the verdict is inverted
ShouldPersistInverted(vr) == ~vr.passed

\* if validation_result.passed: save, cache, complete, return df
\* else: complete, return None
ShouldPersist(vr) == vr.passed

\* What save_to_csv and save_to_sqlite do: each writes the rows and returns True,
\* or fails, logs the error and returns False
StoreOutcomes == [csv : BOOLEAN, db : BOOLEAN]
StoreOk == [csv |-> TRUE, db |-> TRUE]

\* self._save_data(df, ...): save_to_csv (the file is opened with 'w') then
\* save_to_sqlite (one INSERT per row). The whole body is in a try/except that
\* only logs, and each writer catches its own error: nothing is raised
SaveData(tk, rows, st) ==
    [tk EXCEPT !.csvWrites = IF st.csv THEN @ + 1 ELSE @,
               !.csvRows = IF st.csv THEN Some(Len(rows)) ELSE @,
               !.dbWrites = IF st.db THEN @ + 1 ELSE @,
               !.dbRows = IF st.db THEN @ + Len(rows) ELSE @,
               !.saveErrors = @ + (IF st.csv THEN 0 ELSE 1) + (IF st.db THEN 0 ELSE 1),
               !.trace = Append(@, "PERSISTING")]

\* Variant: save_to_cache is called whatever use_cache says
PutsToCacheAlways(tk) == TRUE

\* if use_cache: self.cache.save_to_cache(...)
PutsToCache(tk) == tk.use_cache

\* Variant: the rejected dataset is returned with empty diagnostics
StatsOfInvalidEmpty(vr) == None

\* return None, validation_result.stats
StatsOfInvalid(vr) == Some(vr.stats)

\* Variant: the dataset is cached under the default timeframe of the function
PutKeyDefaultTimeframe(tk, symbol) == <<tk.exchange_name, symbol, "1d">>

\* self.cache.save_to_cache(df, exchange_name, symbol, timeframe)
PutKey(tk, symbol) == KeyOf(tk, symbol)

\* Variant: an empty result is raised as an error
OnEmptyResultRaises(tk) == ExceptHandler(tk, "ValueError")

\* if not ohlcv: update_metrics(errors=["No data received from exchange"]);
\* return None, {}
OnEmptyResult(tk) ==
    Return(UpdateMetrics(tk, [errors |-> <<"No data received from exchange">>]),
           None, None)

\* The rest of the attempt once fetch_ohlcv has returned or raised: the pair of
\* the task and the cache afterwards. putOk: save_to_cache succeeds; it writes
\* under cache_dir, and when it raises only the except clause of the function
\* catches it. st: what the two writers of _save_data do.
AfterFetch(tk0, c, symbol, t, o, putOk, st) ==
    LET tk == [tk0 EXCEPT !.fetchLog = Append(@, o)]
    IN  IF o.raises # ""
        THEN [task |-> ExceptHandler(tk, o.raises), cache |-> c]
        ELSE IF o.rows = <<>>
        THEN [task |-> OnEmptyResult(tk), cache |-> c]
        ELSE
          LET vr == validate_ohlcv_data(o.rows)
              tv == UpdateMetrics([tk EXCEPT !.trace = Append(@, "VALIDATING")],
                                  [rows_downloaded |-> Len(o.rows),
                                   data_validation_passed |-> Some(vr.passed),
                                   errors |-> vr.errors])
          IN  IF ShouldPersist(vr)
              THEN LET ts == SaveData(tv, o.rows, st)
                   IN  IF ~PutsToCache(tk)
                       THEN [task |-> Return(CompleteOperation(ts, TRUE),
                                             Some(o.rows), Some(vr.stats)),
                             cache |-> c]
                       ELSE IF putOk
                       THEN [task |-> Return(CompleteOperation(
                                                [ts EXCEPT !.puts = @ + 1,
                                                           !.putAt = Some(t)], TRUE),
                                             Some(o.rows), Some(vr.stats)),
                             cache |-> save_to_cache(c, o.rows, PutKey(tk, symbol), t)]
                       ELSE [task |-> ExceptHandler(ts, "CacheWriteError"),
                             cache |-> c]
              ELSE [task |-> Return(CompleteOperation(tv, FALSE), None,
                                    StatsOfInvalid(vr)),
                    cache |-> c]

TaskIds == DOMAIN tasks

\* A created task runs its first attempt (download_multiple_symbols)
TaskStart(t) ==
    /\ t \in TaskIds
    /\ tasks[t].pc = "created"
    /\ tasks' = [tasks EXCEPT ![t] =
                   Attempt([@ EXCEPT !.seen = cache[KeyOf(tasks[t], symbols[t])],
                                     !.seenAt = now],
                           cache, symbols[t], now)]
    /\ cache' = CacheAfterLookup(tasks[t], cache, symbols[t], now)
    /\ UNCHANGED <<max_retries, retry_delay, now, symbols, batch_size, dm,
                   results, calls, exchanges, run, trades>>

\* The awaited fetch_ohlcv returns at most `limit` rows or raises (one of
\* outcomes); save_to_cache, when it is reached, succeeds or not (one of putOks)
\* and the writers of _save_data succeed or not (one of stores)
FetchReturn(t, outcomes, putOks, stores) ==
    /\ t \in TaskIds
    /\ tasks[t].pc = "fetching"
    /\ \E o \in outcomes, putOk \in putOks, st \in stores :
         /\ Len(o.rows) <= tasks[t].limit
         /\ LET r == AfterFetch(tasks[t], cache, symbols[t], now, o, putOk, st)
            IN  /\ tasks' = [tasks EXCEPT ![t] = r.task]
                /\ cache' = r.cache
    /\ UNCHANGED <<max_retries, retry_delay, now, symbols, batch_size, dm,
                   results, calls, exchanges, run, trades>>

\* The backoff sleep of the retry coordinator ends: next attempt
Wake(t) ==
    /\ t \in TaskIds
    /\ tasks[t].pc = "backoff"
    /\ tasks' = [tasks EXCEPT ![t] = Attempt(@, cache, symbols[t], now)]
    /\ cache' = CacheAfterLookup(tasks[t], cache, symbols[t], now)
    /\ UNCHANGED <<max_retries, retry_delay, now, symbols, batch_size, dm,
                   results, calls, exchanges, run, trades>>

\* Time passes
Tick ==
    /\ now + TickMinutes <= MaxNow
    /\ now' = now + TickMinutes
    /\ UNCHANGED <<max_retries, retry_delay, cache, symbols, tasks, batch_size, dm,
                   results, calls, exchanges, run, trades>>

(***************************************************************************)
(* Direct calls of async_download_ohlcv, one after the other (main.py)     *)
(***************************************************************************)
EmptyCache == [k \in Keys |-> None]
NoResults == [s \in Symbols |-> None]

\* self.exchanges after a setup_exchanges in which every exchange was initialised
AllThere == [n \in ExchangeNames |-> [there |-> TRUE, closes |-> 0]]

\* main() is not running. default_symbols: config.default_symbols; idx: the
\* position of the loop over them; ci: the position of close_exchanges in
\* self.exchanges; err: the exception that ended the run; processed: the symbols
\* whose turn of the loop reached its end
RunOff ==
    [pc |-> "off", default_symbols |-> <<>>, idx |-> 0, ci |-> 0, err |-> "",
     processed |-> <<>>]

\* No call of async_download_trades yet
TradesOff ==
    [pc |-> "off", exchange_name |-> ActiveExchange, attempt |-> 0, fetches |-> 0,
     fetchLog |-> <<>>, waits |-> <<>>, saves |-> 0, ret |-> None, raised |-> FALSE]

Init ==
    /\ max_retries \in 1..MaxRetriesCfg
    /\ retry_delay \in RetryDelays
    /\ now = 0
    /\ cache = EmptyCache
    /\ symbols = <<>>
    /\ tasks = <<>>
    /\ batch_size = 1
    /\ dm = [pc |-> "off", i |-> 0, k |-> 0]
    /\ results = NoResults
    /\ calls = 0
    /\ exchanges = AllThere
    /\ run = RunOff
    /\ trades = TradesOff

\* ohlcv_data = await downloader.async_download_ohlcv(symbol, ...): the call runs
\* the first attempt up to its first await
Call(symbol, uc) ==
    /\ dm.pc = "off"
    /\ calls < MaxCalls
    /\ \A t \in TaskIds : Terminal(tasks[t])
    /\ calls' = calls + 1
    /\ symbols' = <<symbol>>
    /\ tasks' = << Attempt([NewTask(uc) EXCEPT
                                !.seen = cache[KeyOf(NewTask(uc), symbol)],
                                !.seenAt = now],
                           cache, symbol, now) >>
    /\ cache' = CacheAfterLookup(NewTask(uc), cache, symbol, now)
    /\ UNCHANGED <<max_retries, retry_delay, now, batch_size, dm, results,
                   exchanges, run, trades>>

Next ==
    \/ \E s \in Symbols, uc \in BOOLEAN : Call(s, uc)
    \/ FetchReturn(1, FetchOutcomes, BOOLEAN, {StoreOk})
    \/ Wake(1)
    \/ Tick

Spec == Init /\ [][Next]_vars


(***************************************************************************)
(* DataDownloader.download_multiple_symbols                                *)
(***************************************************************************)
\* Variant: batch = symbols[i:], every remaining symbol at once
BatchAllRemaining(i) == {t \in 1..Len(symbols) : i < t}

\* batch = symbols[i:i + batch_size], as task ids
Batch(i) == {t \in 1..Len(symbols) : i < t /\ t <= i + batch_size}

\* for symbol in batch: task = asyncio.create_task(self.async_download_ohlcv(...))
\* (use_cache is not passed: it is True), then the first `await task`
LaunchBatch(i) ==
    /\ tasks' = [t \in 1..Len(symbols) |->
                   IF t \in Batch(i) THEN NewTask(TRUE) ELSE tasks[t]]
    /\ dm' = [pc |-> "await", i |-> i, k |-> i + 1]

\* Variant: `await task` outside any try: the exception of the task escapes
TaskOutcomeNoCatch(tk, symbol, res) ==
    IF tk.pc = "raised"
    THEN [crashed |-> TRUE, results |-> res]
    ELSE IF tk.ret[1].data # None
    THEN [crashed |-> FALSE, results |-> [res EXCEPT ![symbol] = tk.ret[1].data]]
    ELSE [crashed |-> FALSE, results |-> res]

\* try: data, stats = await task; if data is not None: results[symbol] = data
\* except Exception: log
TaskOutcome(tk, symbol, res) ==
    IF tk.pc = "raised"
    THEN [crashed |-> FALSE, results |-> res]
    ELSE IF tk.ret[1].data # None
    THEN [crashed |-> FALSE, results |-> [res EXCEPT ![symbol] = tk.ret[1].data]]
    ELSE [crashed |-> FALSE, results |-> res]

\* Variant: only the first task of the batch is awaited
LastOfBatchFirstOnly(i) == i + 1

\* The last task that the loop `for symbol, task in tasks` awaits
LastOfBatch(i) == Min(i + batch_size, Len(symbols))

DmCall ==
    /\ dm.pc = "idle"
    /\ IF Len(symbols) = 0
       THEN dm' = [dm EXCEPT !.pc = "returned"] /\ UNCHANGED tasks
       ELSE LaunchBatch(0)
    /\ UNCHANGED <<max_retries, retry_delay, now, cache, symbols, batch_size,
                   results, calls, exchanges, run, trades>>

\* `await task` of task dm.k returns or raises
DmAwait ==
    /\ dm.pc = "await"
    /\ Terminal(tasks[dm.k])
    /\ LET out == TaskOutcome(tasks[dm.k], symbols[dm.k], results)
       IN  /\ results' = out.results
           /\ dm' = IF out.crashed THEN [dm EXCEPT !.pc = "crashed"]
                    ELSE IF dm.k < LastOfBatch(dm.i) THEN [dm EXCEPT !.k = @ + 1]
                    ELSE IF dm.i + batch_size < Len(symbols)
                    THEN [dm EXCEPT !.pc = "sleep"]
                    ELSE [dm EXCEPT !.pc = "returned"]
    /\ UNCHANGED <<max_retries, retry_delay, now, cache, symbols, tasks, batch_size,
                   calls, exchanges, run, trades>>

\* Variant: the outer loop does not advance
NextBatchStartSame(i) == i

\* for i in range(0, len(symbols), batch_size): the start of the next batch
NextBatchStart(i) == i + batch_size

\* await asyncio.sleep(1) ends: the next batch is launched
DmSleepDone ==
    /\ dm.pc = "sleep"
    /\ LaunchBatch(NextBatchStart(dm.i))
    /\ UNCHANGED <<max_retries, retry_delay, now, cache, symbols, batch_size,
                   results, calls, exchanges, run, trades>>

SymbolLists == UNION {[1..n -> Symbols] : n \in 0..NumSymbols}

\* config.max_retries during a batch
BatchMaxRetries == {1, 2}

\* What the gateway does during a batch
BatchOutcomes == {o \in FetchOutcomes : o.rows \in {<<>>, GoodOne}}

\* The cache at the call: empty, or holding what earlier downloads left
CachesAtCall ==
    {c \in [Keys -> {None, Some([data |-> GoodOne, ts |-> 0])}] :
        \A k \in Keys : c[k] # None => k[1] = ActiveExchange /\ k[3] = "1h"}

InitBatch ==
    /\ max_retries \in BatchMaxRetries
    /\ retry_delay = 5
    /\ now = 0
    /\ cache \in CachesAtCall
    /\ symbols \in SymbolLists
    /\ tasks = [t \in 1..Len(symbols) |-> Unborn]
    /\ batch_size \in 1..MaxBatch
    /\ dm = [pc |-> "idle", i |-> 0, k |-> 0]
    /\ results = NoResults
    /\ calls = 0
    /\ exchanges = AllThere
    /\ run = RunOff
    /\ trades = TradesOff

NextBatch ==
    \/ DmCall
    \/ DmAwait
    \/ DmSleepDone
    \/ \E t \in TaskIds : TaskStart(t)
    \/ \E t \in TaskIds : FetchReturn(t, BatchOutcomes, {TRUE}, {StoreOk})
    \/ \E t \in TaskIds : Wake(t)

SpecBatch == InitBatch /\ [][NextBatch]_vars

\* The symbol lists of the calls whose return is checked: one symbol repeated,
\* or two symbols in turn
RepeatedOrInTurn ==
    {[j \in 1..n |-> "A"] : n \in 0..NumSymbols}
    \cup {[j \in 1..n |-> IF j % 2 = 1 THEN "A" ELSE "B"] : n \in 0..NumSymbols}

\* A call of download_multiple_symbols on an empty cache
InitBatchFair ==
    /\ InitBatch
    /\ cache = EmptyCache
    /\ symbols \in RepeatedOrInTurn

\* The event loop runs every coroutine that is ready (the caller's call, a
\* created task, an `await task` whose task is done, a sleep that has ended),
\* and every awaited fetch_ohlcv returns or raises
FairBatch ==
    /\ WF_vars(DmCall)
    /\ WF_vars(DmAwait)
    /\ WF_vars(DmSleepDone)
    /\ \A t \in 1..NumSymbols :
          /\ WF_vars(TaskStart(t))
          /\ WF_vars(FetchReturn(t, BatchOutcomes, {TRUE}, {StoreOk}))
          /\ WF_vars(Wake(t))

SpecBatchFair == InitBatchFair /\ [][NextBatch]_vars /\ FairBatch


(***************************************************************************)
(* DataDownloader.async_download_trades                                    *)
(***************************************************************************)
\* What an awaited exchange.fetch_trades can do: raise, return no trade or one
TradeOutcomes ==
    {[raises |-> "TransientFetchError", rows |-> <<>>],
     [raises |-> "", rows |-> <<>>],
     [raises |-> "", rows |-> << [id |-> "1", price |-> 4, amount |-> 1] >>]}

\* except Exception as e: log; await asyncio.sleep(self.config.retry_delay)
TradesExcept(tr) ==
    [tr EXCEPT !.pc = "sleeping", !.waits = Append(@, retry_delay)]

\* One turn of `for attempt in range(self.config.max_retries)` up to its await:
\* _get_exchange, then the issue of fetch_trades
TradesAttempt(tr) ==
    LET t1 == [tr EXCEPT !.attempt = @ + 1]
    IN  IF GetExchangeRaises(tr.exchange_name)
        THEN TradesExcept(t1)
        ELSE [t1 EXCEPT !.pc = "fetching", !.fetches = @ + 1]

\* await downloader.async_download_trades(symbol, exchange_name)
TradesCall(exchange_name) ==
    /\ dm.pc = "off" /\ run.pc = "off"
    /\ calls < MaxCalls
    /\ trades.pc \in {"off", "returned"}
    /\ \A t \in TaskIds : Terminal(tasks[t])
    /\ calls' = calls + 1
    /\ trades' = TradesAttempt([TradesOff EXCEPT !.exchange_name = exchange_name])
    /\ UNCHANGED <<max_retries, retry_delay, now, cache, symbols, tasks, batch_size,
                   dm, results, exchanges, run>>

\* The awaited fetch_trades returns or raises: if trades: _save_data; return df;
\* return pd.DataFrame()
TradesFetchReturn ==
    /\ trades.pc = "fetching"
    /\ \E o \in TradeOutcomes :
         LET tr == [trades EXCEPT !.fetchLog = Append(@, o)]
         IN  trades' = IF o.raises # "" THEN TradesExcept(tr)
                       ELSE IF o.rows # <<>>
                       THEN [tr EXCEPT !.pc = "returned", !.saves = @ + 1,
                                       !.ret = Some(o.rows)]
                       ELSE [tr EXCEPT !.pc = "returned", !.ret = Some(<<>>)]
    /\ UNCHANGED <<max_retries, retry_delay, now, cache, symbols, tasks, batch_size,
                   dm, results, calls, exchanges, run>>

\* A variant whose loop takes one turn more than max_retries
TradesLoopGoesOnOneMore(tr) == tr.attempt <= max_retries

\* for attempt in range(self.config.max_retries): is there another turn
TradesLoopGoesOn(tr) == tr.attempt < max_retries

\* The sleep ends: the next turn of the loop, or after the last one `return None`
TradesWake ==
    /\ trades.pc = "sleeping"
    /\ trades' = IF TradesLoopGoesOn(trades) THEN TradesAttempt(trades)
                 ELSE [trades EXCEPT !.pc = "returned", !.ret = None]
    /\ UNCHANGED <<max_retries, retry_delay, now, cache, symbols, tasks, batch_size,
                   dm, results, calls, exchanges, run>>

(***************************************************************************)
(* Calls of async_download_ohlcv by a caller that chooses exchange,        *)
(* timeframe and limit (SpecApi), and calls of the two download methods    *)
(* when writes fail and exchanges are missing from the map (SpecFaults)     *)
(***************************************************************************)
ApiSymbol == "A"

\* await downloader.async_download_ohlcv(symbol, exchange_name, timeframe=...,
\* limit=..., use_cache=...)
ApiCall(exchange_name, timeframe, limit, uc) ==
    /\ calls < MaxCalls
    /\ trades.pc \in {"off", "returned"}
    /\ \A t \in TaskIds : Terminal(tasks[t])
    /\ calls' = calls + 1
    /\ symbols' = <<ApiSymbol>>
    /\ LET tk == [NewTask(uc) EXCEPT !.exchange_name = exchange_name,
                                     !.timeframe = timeframe, !.limit = limit,
                                     !.seenAt = now]
           key == KeyOf(tk, ApiSymbol)
       IN  /\ tasks' = << Attempt([tk EXCEPT !.seen = cache[key]],
                                  cache, ApiSymbol, now) >>
           /\ cache' = CacheAfterLookup(tk, cache, ApiSymbol, now)
    /\ UNCHANGED <<max_retries, retry_delay, now, batch_size, dm, results,
                   exchanges, run, trades>>

\* The gateway returns well-formed rows
ValidOutcomes == {o \in FetchOutcomes : o.rows \in {GoodOne, GoodTwo}}

InitApi ==
    /\ max_retries = 1
    /\ retry_delay = 5
    /\ now = 0
    /\ cache = EmptyCache
    /\ symbols = <<>>
    /\ tasks = <<>>
    /\ batch_size = 1
    /\ dm = [pc |-> "off", i |-> 0, k |-> 0]
    /\ results = NoResults
    /\ calls = 0
    /\ exchanges = AllThere
    /\ run = RunOff
    /\ trades = TradesOff

NextApi ==
    \/ \E ex \in ExchangeNames, tf \in Timeframes, lim \in 1..MaxLimit :
          ApiCall(ex, tf, lim, TRUE)
    \/ FetchReturn(1, ValidOutcomes, {TRUE}, {StoreOk})
    \/ Tick

SpecApi == InitApi /\ [][NextApi]_vars

\* self.exchanges after setup_exchanges: an exchange whose initialisation failed
\* is not in the map
Registries ==
    [ExchangeNames -> {[there |-> TRUE, closes |-> 0], [there |-> FALSE, closes |-> 0]}]

\* What the gateway does during these calls
FaultOutcomes == {o \in FetchOutcomes : o.rows \in {<<>>, GoodOne}}

InitFaults ==
    /\ max_retries \in BatchMaxRetries
    /\ retry_delay = 5
    /\ now = 0
    /\ cache = EmptyCache
    /\ symbols = <<>>
    /\ tasks = <<>>
    /\ batch_size = 1
    /\ dm = [pc |-> "off", i |-> 0, k |-> 0]
    /\ results = NoResults
    /\ calls = 0
    /\ exchanges \in Registries
    /\ run = RunOff
    /\ trades = TradesOff

NextFaults ==
    \/ \E ex \in ExchangeNames, uc \in BOOLEAN : ApiCall(ex, "1h", MaxLimit, uc)
    \/ FetchReturn(1, FaultOutcomes, BOOLEAN, StoreOutcomes)
    \/ Wake(1)
    \/ \E ex \in ExchangeNames : TradesCall(ex)
    \/ TradesFetchReturn
    \/ TradesWake

SpecFaults == InitFaults /\ [][NextFaults]_vars

(***************************************************************************)
(* One download whose gateway returns any dataset over a small grid of     *)
(* prices, volumes and timestamps (SpecValidate)                           *)
(***************************************************************************)
Prices == {1, 2}
Volumes == {-1, 0}
Timestamps == {1, 2}

\* The rows that exchange.fetch_ohlcv can return, well-formed or not
GridRows ==
    {Row(ts, o, h, l, c, v) :
        ts \in Timestamps, o \in Prices, h \in Prices, l \in Prices, c \in Prices,
        v \in Volumes}

\* fetch_ohlcv returns between one and `limit` rows
GridOutcomes ==
    {[raises |-> "", rows |-> d] : d \in UNION {[1..n -> GridRows] : n \in 1..MaxLimit}}

\* The first download of the process
FirstCall ==
    /\ tasks = <<>>
    /\ ApiCall(ActiveExchange, "1h", MaxLimit, TRUE)

NextValidate ==
    \/ FirstCall
    \/ FetchReturn(1, GridOutcomes, {TRUE}, {StoreOk})

SpecValidate == InitApi /\ [][NextValidate]_vars


(***************************************************************************)
(* Downloads of one key, one after the other, whose CSV file and database  *)
(* table outlive each download (SpecStore)                                 *)
(***************************************************************************)
\* What the previous download of the key left in storage: csvRows, the data
\* rows of the CSV file of the key; dbRows, the rows of its table
StorageLeftBy(prev) == [csvRows |-> prev.csvRows, dbRows |-> prev.dbRows]

\* await downloader.async_download_ohlcv(symbol, exchange_name, timeframe) for
\* the same symbol, exchange and timeframe as the download before it: _save_data
\* will write to the same file (csv_filename) and the same table (table_name)
StoreCall(uc) ==
    /\ calls < MaxCalls
    /\ \A t \in TaskIds : Terminal(tasks[t])
    /\ calls' = calls + 1
    /\ symbols' = <<ApiSymbol>>
    /\ LET left == StorageLeftBy(IF tasks = <<>> THEN NewTask(uc) ELSE tasks[1])
           tk == [NewTask(uc) EXCEPT !.csvRows = left.csvRows,
                                     !.dbRows = left.dbRows,
                                     !.seen = cache[KeyOf(NewTask(uc), ApiSymbol)],
                                     !.seenAt = now]
       IN  /\ tasks' = << Attempt(tk, cache, ApiSymbol, now) >>
           /\ cache' = CacheAfterLookup(tk, cache, ApiSymbol, now)
    /\ UNCHANGED <<max_retries, retry_delay, now, batch_size, dm, results,
                   exchanges, run, trades>>

NextStore ==
    \/ \E uc \in BOOLEAN : StoreCall(uc)
    \/ FetchReturn(1, ValidOutcomes, {TRUE}, {StoreOk})
    \/ Tick

SpecStore == InitApi /\ [][NextStore]_vars


(***************************************************************************)
(* main(): load the configuration, set up the exchanges, one turn of the   *)
(* loop per configured symbol, close the exchanges in the finally clause   *)
(***************************************************************************)
\* self.exchanges = {} of DataDownloader.__init__
NoneThere == [n \in ExchangeNames |-> [there |-> FALSE, closes |-> 0]]

\* The order of config.exchanges, which is that of self.exchanges.values()
ExchangeOrder == <<"binance", "kraken">>

\* Variant: main catches the error of the load, logs it and goes on with Config()
AfterLoadConfigLogsAndGoesOn(r, found) ==
    IF found THEN [r EXCEPT !.pc = "setup"]
    ELSE [r EXCEPT !.pc = "setup", !.err = "FileNotFoundError"]

\* load_config_from_yaml raises FileNotFoundError when the file does not exist;
\* the call is before the try of main, so the exception ends the run there
AfterLoadConfig(r, found) ==
    IF found THEN [r EXCEPT !.pc = "setup"]
    ELSE [r EXCEPT !.pc = "ended", !.err = "FileNotFoundError"]

\* config = load_config_from_yaml(), then DataDownloader(config)
RunLoadConfig ==
    /\ run.pc = "start"
    /\ \E found \in BOOLEAN : run' = AfterLoadConfig(run, found)
    /\ UNCHANGED <<max_retries, retry_delay, now, cache, symbols, tasks, batch_size,
                   dm, results, calls, exchanges, trades>>

\* await downloader.setup_exchanges(): every configured exchange is put into
\* self.exchanges unless its construction fails, which is logged
RunSetup ==
    /\ run.pc = "setup"
    /\ exchanges' \in Registries
    /\ run' = [run EXCEPT !.pc = "loop", !.idx = 1]
    /\ UNCHANGED <<max_retries, retry_delay, now, cache, symbols, tasks, batch_size,
                   dm, results, calls, trades>>

\* One turn of `for symbol in config.default_symbols` up to its await or its
\* end. exists: what check_data_exists found; readOk: the read of the
\* normalized table succeeds
RunSymbol ==
    /\ run.pc = "loop"
    /\ run.idx <= Len(run.default_symbols)
    /\ \E exists \in BOOLEAN, readOk \in BOOLEAN :
         LET symbol == run.default_symbols[run.idx]
         IN  IF exists
             THEN /\ run' = IF readOk
                            THEN [run EXCEPT !.idx = @ + 1,
                                             !.processed = Append(@, symbol)]
                            ELSE [run EXCEPT !.pc = "closing", !.err = "DatabaseError"]
                  /\ UNCHANGED <<symbols, tasks, cache>>
             ELSE /\ run' = [run EXCEPT !.pc = "download"]
                  /\ symbols' = <<symbol>>
                  /\ tasks' = << Attempt([NewTask(TRUE) EXCEPT
                                            !.seen = cache[KeyOf(NewTask(TRUE), symbol)],
                                            !.seenAt = now],
                                         cache, symbol, now) >>
                  /\ cache' = CacheAfterLookup(NewTask(TRUE), cache, symbol, now)
    /\ UNCHANGED <<max_retries, retry_delay, now, batch_size, dm, results, calls,
                   exchanges, trades>>

\* ohlcv_data = await downloader.async_download_ohlcv(...): an exception of the
\* download leaves the loop; a returned (dataset, stats) pair is tested with
\* `ohlcv_data is not None and not ohlcv_data.empty`, and a pair has no `empty`.
\* The exception that leaves the loop.
AfterDownload(tk) ==
    IF tk.pc = "raised" THEN tk.err ELSE "AttributeError"

RunAfterDownload ==
    /\ run.pc = "download"
    /\ Terminal(tasks[1])
    /\ run' = [run EXCEPT !.pc = "closing", !.err = AfterDownload(tasks[1])]
    /\ UNCHANGED <<max_retries, retry_delay, now, cache, symbols, tasks, batch_size,
                   dm, results, calls, exchanges, trades>>

\* The loop is over: the finally clause
RunLoopDone ==
    /\ run.pc = "loop"
    /\ run.idx > Len(run.default_symbols)
    /\ run' = [run EXCEPT !.pc = "closing"]
    /\ UNCHANGED <<max_retries, retry_delay, now, cache, symbols, tasks, batch_size,
                   dm, results, calls, exchanges, trades>>

\* close_exchanges: `await exchange.close()` is not guarded, its exception leaves
\* the loop over self.exchanges.values()
CloseFailureEndsLoop(ok) == ~ok

\* finally: await downloader.close_exchanges(), one exchange of self.exchanges
\* per step. closes counts the calls of exchange.close(), ok is whether the
\* call returned
RunClose ==
    /\ run.pc = "closing"
    /\ IF run.ci >= Len(ExchangeOrder)
       THEN run' = [run EXCEPT !.pc = "ended"] /\ UNCHANGED exchanges
       ELSE LET n == ExchangeOrder[run.ci + 1]
            IN  IF ~exchanges[n].there
                THEN run' = [run EXCEPT !.ci = @ + 1] /\ UNCHANGED exchanges
                ELSE \E ok \in BOOLEAN :
                       /\ exchanges' = [exchanges EXCEPT ![n].closes = @ + 1]
                       /\ run' = IF CloseFailureEndsLoop(ok)
                                 THEN [run EXCEPT !.pc = "ended", !.err = "CloseError"]
                                 ELSE [run EXCEPT !.ci = @ + 1]
    /\ UNCHANGED <<max_retries, retry_delay, now, cache, symbols, tasks, batch_size,
                   dm, results, calls, trades>>

\* config.default_symbols
DefaultSymbolLists == UNION {[1..n -> Symbols] : n \in 1..MaxBatch}

InitRun ==
    /\ max_retries \in BatchMaxRetries
    /\ retry_delay = 5
    /\ now = 0
    /\ cache \in CachesAtCall
    /\ symbols = <<>>
    /\ tasks = <<>>
    /\ batch_size = 1
    /\ dm = [pc |-> "off", i |-> 0, k |-> 0]
    /\ results = NoResults
    /\ calls = 0
    /\ exchanges = NoneThere
    /\ \E l \in DefaultSymbolLists : run = [RunOff EXCEPT !.pc = "start",
                                                         !.default_symbols = l]
    /\ trades = TradesOff

NextRun ==
    \/ RunLoadConfig
    \/ RunSetup
    \/ RunSymbol
    \/ FetchReturn(1, BatchOutcomes, {TRUE}, {StoreOk})
    \/ Wake(1)
    \/ RunAfterDownload
    \/ RunLoopDone
    \/ RunClose

SpecRun == InitRun /\ [][NextRun]_vars


(***************************************************************************)
(* Properties                                                              *)
(***************************************************************************)
Started(tk) == tk.pc \notin {"unborn", "created"}

LastFetch(tk) == tk.fetchLog[Len(tk.fetchLog)]

IsValidRows(o) == o.raises = "" /\ o.rows # <<>> /\ validate_ohlcv_data(o.rows).passed

\* The attempts of the request whose fetch brought a dataset that passed validation
NumValid(tk) == Cardinality({i \in 1..Len(tk.fetchLog) : IsValidRows(tk.fetchLog[i])})

\* The request returned through VALIDATING, PERSISTING, DONE
DoneThroughValid(tk) ==
    /\ tk.pc = "returned"
    /\ Len(tk.trace) >= 2
    /\ tk.trace[Len(tk.trace) - 1] = "PERSISTING"

\* C1: over all the attempts of a request, the data is written at most once to the
\* CSV file and at most once to the database table, and exactly once when the
\* request ends in DONE through the VALID branch (also when save_to_cache failed
\* after the persist step of an earlier attempt).
C1_PersistAtMostOnce ==
    \A t \in TaskIds :
        /\ tasks[t].csvWrites <= 1
        /\ tasks[t].dbWrites <= 1
        /\ DoneThroughValid(tasks[t]) =>
               tasks[t].csvWrites = 1 /\ tasks[t].dbWrites = 1

\* The last fetch of the request brought a non-empty dataset that failed validation
ValidationFailed(tk) ==
    /\ Len(tk.fetchLog) >= 1
    /\ LastFetch(tk).raises = ""
    /\ LastFetch(tk).rows # <<>>
    /\ ~validate_ohlcv_data(LastFetch(tk).rows).passed

ReturnsAbsentWithStats(tk) ==
    /\ tk.pc = "returned"
    /\ tk.err = ""
    /\ tk.ret = Some([data |-> None,
                      stats |-> Some(validate_ohlcv_data(LastFetch(tk).rows).stats)])

\* C2 as stated: when validation of the fetched dataset fails, the request has
\* written nothing, has not put into the cache, has invoked the gateway exactly
\* once, raises nothing and returns (absent, stats).
C2_InvalidExactlyOneFetch ==
    \A t \in TaskIds :
        ValidationFailed(tasks[t]) =>
            /\ ReturnsAbsentWithStats(tasks[t])
            /\ tasks[t].csvWrites = 0 /\ tasks[t].dbWrites = 0
            /\ tasks[t].puts = 0
            /\ tasks[t].fetches = 1

\* C2 amended: when validation of the fetched dataset fails, the attempt writes
\* nothing (the writes of the request are those of its earlier attempts), puts
\* nothing into the cache, the request ends there without a further gateway
\* invocation, raises nothing and returns (absent, stats); on the first attempt
\* the gateway has been invoked exactly once and nothing was written.
C2_InvalidNotPersistedNotRetried ==
    \A t \in TaskIds :
        ValidationFailed(tasks[t]) =>
            /\ ReturnsAbsentWithStats(tasks[t])
            /\ tasks[t].csvWrites = NumValid(tasks[t])
            /\ tasks[t].dbWrites = NumValid(tasks[t])
            /\ tasks[t].puts = 0
            /\ tasks[t].fetches = Len(tasks[t].fetchLog)
            /\ tasks[t].fetches = tasks[t].attempt
            /\ tasks[t].attempt = 1 =>
                   /\ tasks[t].fetches = 1
                   /\ tasks[t].csvWrites = 0 /\ tasks[t].dbWrites = 0

C2_Witness ==
    \E t \in TaskIds : ValidationFailed(tasks[t]) /\ tasks[t].attempt = 1

AllTransient(tk) ==
    \A i \in 1..Len(tk.fetchLog) : tk.fetchLog[i].raises = "TransientFetchError"

RetryServedFromCache(tk) ==
    /\ tk.pc = "returned"
    /\ tk.use_cache
    /\ tk.attempt = Len(tk.fetchLog) + 1
    /\ tk.fetches = Len(tk.fetchLog)
    /\ tk.ret[1].data # None
    /\ tk.trace[Len(tk.trace) - 1] = "CHECK_CACHE"

PermanentAt(tk, i) == tk.fetchLog[i].raises = "PermanentFetchError"

\* C4 as stated: when a fetch of the request fails with a permanent error, the
\* request has made exactly one invocation attempt and no backoff wait.
C4_PermanentExactlyOneAttempt ==
    \A t \in TaskIds :
        \A i \in 1..Len(tasks[t].fetchLog) :
            PermanentAt(tasks[t], i) =>
                /\ tasks[t].pc = "raised"
                /\ tasks[t].fetches = 1
                /\ tasks[t].attempt = 1
                /\ tasks[t].waits = <<>>

\* C4 amended: when a fetch of the request fails with a permanent error, the
\* request is aborted with that error in the same attempt: no backoff wait follows
\* it and no further attempt or invocation is made; when it is the first fetch,
\* the request has made exactly one invocation and no wait.
C4_PermanentAbortsAtOnce ==
    \A t \in TaskIds :
        \A i \in 1..Len(tasks[t].fetchLog) :
            PermanentAt(tasks[t], i) =>
                /\ tasks[t].pc = "raised"
                /\ tasks[t].err = "PermanentFetchError"
                /\ i = Len(tasks[t].fetchLog)
                /\ tasks[t].fetches = i
                /\ tasks[t].attempt = i
                /\ Len(tasks[t].waits) = i - 1
                /\ i = 1 => tasks[t].fetches = 1 /\ tasks[t].waits = <<>>

C4_Witness ==
    \E t \in TaskIds :
        /\ Len(tasks[t].fetchLog) = 1
        /\ PermanentAt(tasks[t], 1)
        /\ max_retries >= 2


\* A task of the symbol returned a dataset
ReturnedData(sym) ==
    \E t \in TaskIds :
        /\ symbols[t] = sym
        /\ tasks[t].pc = "returned"
        /\ tasks[t].ret[1].data # None

\* C5: no exception propagates out of download_multiple_symbols whatever downloads
\* fail; when it returns, every download has reached its own terminal state and
\* results holds an entry for a symbol exactly when a download of that symbol
\* returned a dataset.
C5_BatchIsolation ==
    /\ dm.pc # "crashed"
    /\ dm.pc = "returned" =>
          /\ \A t \in TaskIds : Terminal(tasks[t])
          /\ \A sym \in Symbols : (results[sym] # None) <=> ReturnedData(sym)

\* A fails permanently, B succeeds
C5_Witness ==
    /\ dm.pc = "returned"
    /\ symbols = <<"A", "B">>
    /\ tasks[1].pc = "raised" /\ tasks[1].err = "PermanentFetchError"
    /\ results["A"] = None
    /\ results["B"] # None

\* The cache held a fresh entry for the key when a download with use_cache started
FreshAtCall(tk) ==
    /\ Started(tk)
    /\ tk.use_cache
    /\ tk.seen # None
    /\ tk.seenAt - tk.seen[1].ts <= 30

ServedFromCache(tk) ==
    /\ tk.pc = "returned"
    /\ tk.ret[1].data = Some(tk.seen[1].data)
    /\ tk.fetches = 0
    /\ tk.waits = <<>>
    /\ tk.csvWrites = 0 /\ tk.dbWrites = 0

Group(t) == (t - 1) \div batch_size

\* C7: a task of a later group is created only when every task of every earlier
\* group has returned or raised.
C7_GroupsInOrder ==
    \A t, u \in TaskIds :
        (Group(u) < Group(t) /\ tasks[t].pc # "unborn") => Terminal(tasks[u])

\* The second group runs after a first group of two tasks
C7_Witness ==
    /\ batch_size = 2
    /\ Len(symbols) = 3
    /\ tasks[3].pc = "fetching"
    /\ tasks[1].pc = "raised"
    /\ tasks[2].pc = "returned"

Rank(st) ==
    CASE st = "CHECK_CACHE" -> 1
      [] st = "FETCHING" -> 2
      [] st = "VALIDATING" -> 3
      [] st = "PERSISTING" -> 4
      [] OTHER -> 5

\* C8: the states of a request are entered in the order CHECK_CACHE, FETCHING,
\* VALIDATING, PERSISTING, DONE/FAILED, none twice (also across retry attempts),
\* and nothing follows DONE or FAILED.
C8_ForwardOnly ==
    \A t \in TaskIds :
        \A i, j \in 1..Len(tasks[t].trace) :
            i < j => Rank(tasks[t].trace[i]) < Rank(tasks[t].trace[j])

\* Every attempt the coordinator allows has been made and the last one failed
\* with a transient error
Exhausted(tk) ==
    /\ Terminal(tk)
    /\ tk.attempt = max_retries
    /\ Len(tk.fetchLog) = tk.fetches
    /\ tk.fetches >= 1
    /\ LastFetch(tk).raises = "TransientFetchError"

\* C9: when the retry attempts are exhausted, the download returns an absent
\* result to its caller and lets no exception escape.
C9_ExhaustedReturnsAbsent ==
    \A t \in TaskIds :
        Exhausted(tasks[t]) =>
            /\ tasks[t].pc = "returned"
            /\ tasks[t].ret[1].data = None

\* C10: the k-th wait of a request, made after its k-th failed attempt and before
\* attempt k+1, is min(retry_delay * 2^(k-1), 60); waits never decrease and
\* none exceeds 60; no wait follows the last allowed attempt.
C10_BackoffDelays ==
    \A t \in TaskIds :
        /\ \A k \in 1..Len(tasks[t].waits) :
              /\ tasks[t].waits[k] = Min(retry_delay * Pow2(k - 1), 60)
              /\ tasks[t].waits[k] <= 60
              /\ k > 1 => tasks[t].waits[k - 1] <= tasks[t].waits[k]
        /\ Started(tasks[t]) =>
              Len(tasks[t].waits) =
                  IF tasks[t].pc = "backoff" THEN tasks[t].attempt
                  ELSE tasks[t].attempt - 1
        /\ Len(tasks[t].waits) < max_retries

\* The cap is reached: 40, then 60 instead of 80
C10_Witness ==
    \E t \in TaskIds :
        /\ Len(tasks[t].waits) = 2
        /\ tasks[t].waits = <<40, 60>>


\* C11: when a request has put the dataset D it fetched under its key, then as
\* long as less than max_age has elapsed since the put and no other put on the key
\* has been made, get on the key returns a dataset equal to D.
C11_CacheRoundTrip ==
    \A t \in TaskIds :
        (/\ tasks[t].pc = "returned"
         /\ tasks[t].putAt # None
         /\ now - tasks[t].putAt[1] < max_age) =>
            /\ get_from_cache(cache, KeyOf(tasks[t], symbols[t]), now)
                   = Some(LastFetch(tasks[t]).rows)
            /\ tasks[t].ret[1].data = Some(LastFetch(tasks[t]).rows)

\* Time has passed since the put of a dataset of two rows
C11_Witness ==
    \E t \in TaskIds :
        /\ tasks[t].pc = "returned"
        /\ tasks[t].putAt # None
        /\ now > tasks[t].putAt[1]
        /\ now - tasks[t].putAt[1] < max_age
        /\ Len(LastFetch(tasks[t]).rows) = 2

\* The cache held an entry older than 30 minutes for the key when a download
\* with use_cache started
StaleAtCall(tk) ==
    /\ Started(tk)
    /\ tk.use_cache
    /\ tk.seen # None
    /\ tk.seenAt - tk.seen[1].ts > 30

\* C12: get on a key whose entry is older than max_age (30 minutes) returns
\* absent, and a download that starts on such an entry invokes the gateway.
C12_StaleEntryRefetched ==
    /\ \A k \in Keys :
          (cache[k] # None /\ now - cache[k][1].ts > 30) =>
              get_from_cache(cache, k, now) = None
    /\ \A t \in TaskIds :
          StaleAtCall(tasks[t]) =>
              /\ tasks[t].fetches >= 1
              /\ tasks[t].trace[2] = "FETCHING"

C12_Witness ==
    \E t \in TaskIds : StaleAtCall(tasks[t]) /\ tasks[t].pc = "fetching"

\* The step is a save_to_cache on key k by a task whose fetch returned
PutStep(k) ==
    \E t \in TaskIds :
        /\ tasks[t].pc = "fetching"
        /\ t \in DOMAIN tasks'
        /\ tasks'[t].puts = tasks[t].puts + 1
        /\ KeyOf(tasks[t], symbols[t]) = k
        /\ cache'[k] = Some([data |-> LastFetch(tasks'[t]).rows, ts |-> now])

AllValid(tk) ==
    /\ Len(tk.fetchLog) >= 1
    /\ \A i \in 1..Len(tk.fetchLog) : IsValidRows(tk.fetchLog[i])

\* C15: a download (use_cache true) whose gateway returns n >= 1 rows that pass
\* validation returns exactly those rows, has written exactly n data rows to the
\* CSV file of the key and n rows to the table of the key, leaves the cache
\* holding the dataset under its key, and has invoked the gateway exactly once.
C15_ValidDownloadEndToEnd ==
    \A t \in TaskIds :
        (tasks[t].use_cache /\ AllValid(tasks[t])) =>
            LET rows == tasks[t].fetchLog[1].rows
                key == KeyOf(tasks[t], symbols[t])
            IN  /\ tasks[t].pc = "returned"
                /\ tasks[t].ret[1].data = Some(rows)
                /\ tasks[t].fetches = 1
                /\ tasks[t].csvRows = Some(Len(rows))
                /\ tasks[t].dbRows = Len(rows)
                /\ cache[key] # None
                /\ cache[key][1].data = rows

\* The key (exchange, symbol, timeframe) that the request of task t names
RequestKey(t) == <<tasks[t].exchange_name, symbols[t], tasks[t].timeframe>>

\* The step is a successful save_to_cache by a request that names key k
PutBy(k) ==
    \E t \in TaskIds :
        /\ tasks[t].pc = "fetching"
        /\ t \in DOMAIN tasks'
        /\ tasks'[t].puts = tasks[t].puts + 1
        /\ RequestKey(t) = k

\* C14: a download with use_cache is served from the cache exactly when the entry
\* of its own key (exchange, symbol, timeframe) was fresh at its start, whatever
\* its limit and the limit of the download that filled the entry, and then it
\* returns the dataset of that entry; a put on one key never changes what get
\* returns for any other key.
C14_LookupByKeyAndFreshness ==
    [][/\ \A t \in DOMAIN tasks' :
             LET tk == tasks'[t]
                 e == cache[<<tk.exchange_name, symbols'[t], tk.timeframe>>]
             IN  (tk.use_cache /\ tk.attempt = 1 /\ tk.seenAt = now /\ tk.fetchLog = <<>>) =>
                     IF e # None /\ now - e[1].ts <= 30
                     THEN tk.pc = "returned" /\ tk.ret[1].data = Some(e[1].data)
                          /\ tk.fetches = 0
                     ELSE tk.pc = "fetching"
       /\ \A k \in Keys :
             PutBy(k) =>
                 \A k2 \in Keys \ {k} :
                     get_from_cache(cache', k2, now') = get_from_cache(cache, k2, now)
      ]_vars

\* A request with limit 1 was served the two rows that another request had put,
\* while another key held an entry too
C14_Witness ==
    \E t \in TaskIds :
        /\ FreshAtCall(tasks[t])
        /\ tasks[t].limit = 1
        /\ tasks[t].pc = "returned"
        /\ Len(tasks[t].ret[1].data[1]) = 2
        /\ \E k \in Keys : k # RequestKey(t) /\ cache[k] # None

\* C16: when the CSV write or the database write of the persist step has failed,
\* the failure has been logged and the download has returned the fetched dataset
\* in that same attempt: no exception, no retry.
C16_StorageFailureNotFatal ==
    \A t \in TaskIds :
        tasks[t].saveErrors >= 1 =>
            /\ tasks[t].pc = "returned"
            /\ tasks[t].err = ""
            /\ tasks[t].ret[1].data = Some(LastFetch(tasks[t]).rows)
            /\ tasks[t].attempt = Len(tasks[t].fetchLog)
            /\ NumValid(tasks[t]) = 1

\* C17: when the run has ended, close() has been called exactly once on every
\* exchange that setup_exchanges put into self.exchanges.
C17_EveryExchangeClosedOnce ==
    run.pc = "ended" =>
        \A n \in ExchangeNames : exchanges[n].there => exchanges[n].closes = 1

\* The cache has no fresh entry for the request, so that _get_exchange is reached
ReachesGetExchange(tk) == Started(tk) /\ ~FreshAtCall(tk)

\* C18: a download that names an exchange missing from self.exchanges fails at
\* once: one attempt, no backoff wait, no fetch; for async_download_ohlcv the
\* error leaves the function.
C18_UnknownExchangePermanent ==
    /\ \A t \in TaskIds :
          (ReachesGetExchange(tasks[t]) /\ ~exchanges[tasks[t].exchange_name].there) =>
              /\ tasks[t].pc = "raised"
              /\ tasks[t].attempt = 1
              /\ tasks[t].waits = <<>>
              /\ tasks[t].fetches = 0
    /\ (trades.pc # "off" /\ ~exchanges[trades.exchange_name].there) =>
          /\ trades.attempt = 1
          /\ trades.waits = <<>>
          /\ trades.fetches = 0

\* C19: once the loop over the configured symbols has been entered, the run does
\* not reach its finally clause before the last symbol of the list has had its
\* turn, whatever happened to the symbols before it.
C19_LaterSymbolsProcessed ==
    (run.pc \in {"closing", "ended"} /\ run.idx >= 1) =>
        run.idx >= Len(run.default_symbols)

\* C20: no operation record is ever removed, and a record on which
\* complete_operation has been called never changes again, whatever the later
\* attempts and the exception handler do.
C20_CompletedRecordFrozen ==
    [][\A t \in TaskIds :
          \A id \in DOMAIN tasks[t].ops :
              /\ t \in DOMAIN tasks'
              /\ id \in DOMAIN tasks'[t].ops
              /\ tasks[t].ops[id].completed =>
                     tasks'[t].ops[id] = tasks[t].ops[id]]_vars

\* The handler has completed the record of a first attempt, and the second
\* attempt of the request has completed its own
C20_Witness ==
    \E t \in TaskIds :
        /\ Len(tasks[t].ops) = 2
        /\ tasks[t].ops[1].completed /\ ~tasks[t].ops[1].success
        /\ tasks[t].ops[2].completed /\ tasks[t].ops[2].success

\* The download tasks that asyncio.create_task has started and that have neither
\* returned nor raised
InFlight == {t \in TaskIds : tasks[t].pc \notin {"unborn", "returned", "raised"}}

\* C21: at every moment of a download_multiple_symbols call, at most batch_size
\* download tasks have been started and have not yet finished.
C21_AtMostBatchSizeInFlight == Cardinality(InFlight) <= batch_size

\* Two tasks of a group of two are in flight while a third symbol waits its turn
C21_Witness ==
    /\ batch_size = 2
    /\ Len(symbols) = 3
    /\ tasks[1].pc = "fetching"
    /\ tasks[2].pc = "backoff"
    /\ tasks[3].pc = "unborn"

\* C22: when the load of the configuration has failed because the file is
\* missing, the run has ended there: no exchange was put into self.exchanges, no
\* close was called, the loop over the symbols was not entered and no download
\* was started.
C22_ConfigFailureAbortsBeforeOpen ==
    run.err = "FileNotFoundError" =>
        /\ run.pc = "ended"
        /\ \A n \in ExchangeNames : ~exchanges[n].there /\ exchanges[n].closes = 0
        /\ run.idx = 0
        /\ tasks = <<>>

\* The run ended on the missing file although two symbols were to be downloaded
C22_Witness ==
    /\ run.err = "FileNotFoundError"
    /\ run.pc = "ended"
    /\ Len(run.default_symbols) = 2

\* Every row satisfies low <= open <= high, low <= close <= high and volume >= 0,
\* and the timestamps are strictly increasing
WellFormed(rows) ==
    /\ Len(rows) >= 1
    /\ \A i \in 1..Len(rows) :
          /\ rows[i].low <= rows[i].open /\ rows[i].open <= rows[i].high
          /\ rows[i].low <= rows[i].close /\ rows[i].close <= rows[i].high
          /\ rows[i].volume >= 0
    /\ \A i \in 2..Len(rows) : rows[i - 1].timestamp < rows[i].timestamp

\* The fetch of the download has returned rows
Fetched(tk) == Len(tk.fetchLog) = 1 /\ tk.fetchLog[1].raises = ""

\* C23: for every fetched dataset of at least one row whose rows are all
\* well-formed and whose timestamps strictly increase, validate returns passed
\* with no error; the operation record says so and the download returns the
\* dataset.
C23_WellFormedPasses ==
    \A t \in TaskIds :
        (Fetched(tasks[t]) /\ WellFormed(tasks[t].fetchLog[1].rows)) =>
            LET rows == tasks[t].fetchLog[1].rows
                vr == validate_ohlcv_data(rows)
            IN  /\ vr.passed
                /\ vr.errors = <<>>
                /\ tasks[t].ops[1].data_validation_passed = Some(TRUE)
                /\ tasks[t].ops[1].errors = <<>>
                /\ tasks[t].pc = "returned"
                /\ tasks[t].ret[1].data = Some(rows)

\* Two well-formed rows, the first one flat (low = open = close = high, volume 0)
C23_Witness ==
    \E t \in TaskIds :
        /\ Fetched(tasks[t])
        /\ WellFormed(tasks[t].fetchLog[1].rows)
        /\ Len(tasks[t].fetchLog[1].rows) = 2
        /\ tasks[t].fetchLog[1].rows[1].low = tasks[t].fetchLog[1].rows[1].high
        /\ tasks[t].fetchLog[1].rows[2].low < tasks[t].fetchLog[1].rows[2].high

\* The rows of the dataset with high < low
HighBelowLow(rows) == {i \in 1..Len(rows) : rows[i].high < rows[i].low}

\* The rows of the dataset that violate OHLC consistency: low <= high and
\* low <= open, close <= high
Inconsistent(rows) ==
    {i \in 1..Len(rows) :
        \/ rows[i].high < rows[i].low
        \/ rows[i].open < rows[i].low \/ rows[i].high < rows[i].open
        \/ rows[i].close < rows[i].low \/ rows[i].high < rows[i].close}

\* The download has fetched a dataset with at least one row with high < low
FetchedHighBelowLow(tk) ==
    Fetched(tk) /\ HighBelowLow(tk.fetchLog[1].rows) # {}

AttemptsOver(tk) ==
    {id \in DOMAIN tk.ops : id < Len(tk.ops) \/ tk.pc # "fetching"}

\* C25: every operation that an attempt started with start_operation has been
\* completed exactly once when that attempt has returned or raised.
C25_EveryOperationCompletedOnce ==
    \A t \in TaskIds :
        \A id \in AttemptsOver(tasks[t]) : tasks[t].ops[id].completions = 1

\* C26: a download request has exactly one operation record in the ledger of the
\* monitor, whatever the number of attempts it needed.
C26_OneRecordPerRequest ==
    \A t \in TaskIds : Started(tasks[t]) => Len(tasks[t].ops) = 1

\* Two started downloads of one group of download_multiple_symbols that name the
\* same symbol (exchange and timeframe are those of the call), the cache having
\* had no entry for the key when the first of them looked it up
ConcurrentSameKey(t, u) ==
    /\ t # u
    /\ symbols[t] = symbols[u]
    /\ Group(t) = Group(u)
    /\ Started(tasks[t]) /\ Started(tasks[u])
    /\ tasks[t].seen = None \/ tasks[u].seen = None

\* C27: of two concurrent downloads of the same key on an empty cache, at most
\* one invokes the gateway and at most one persists the data.
C27_SameKeyFetchedOnce ==
    \A t, u \in TaskIds :
        ConcurrentSameKey(t, u) =>
            /\ ~(tasks[t].fetches >= 1 /\ tasks[u].fetches >= 1)
            /\ ~(tasks[t].csvWrites + tasks[t].dbWrites >= 1
                  /\ tasks[u].csvWrites + tasks[u].dbWrites >= 1)

\* C28: after a validated download of a key has persisted its rows, every write
\* having succeeded, the CSV file and the table of the key hold the rows of that
\* download and no others, whatever downloads of the key came before.
C28_TableAndFileHoldLatest ==
    \A t \in TaskIds :
        DoneThroughValid(tasks[t]) =>
            /\ tasks[t].csvRows = Some(Len(LastFetch(tasks[t]).rows))
            /\ tasks[t].dbRows = Len(LastFetch(tasks[t]).rows)

\* The step stores under key k the dataset that a download with use_cache has
\* just fetched, the dataset being non-empty and having passed validation
PutOfValidatedFetch(k) ==
    \E t \in TaskIds :
        /\ tasks[t].pc = "fetching"
        /\ t \in DOMAIN tasks'
        /\ tasks'[t].use_cache
        /\ RequestKey(t) = k
        /\ Len(tasks'[t].fetchLog) = Len(tasks[t].fetchLog) + 1
        /\ LET o == LastFetch(tasks'[t])
           IN  /\ o.raises = ""
               /\ o.rows # <<>>
               /\ validate_ohlcv_data(o.rows).passed
               /\ cache'[k] = Some([data |-> o.rows, ts |-> now])

\* C29: every entry of the cache holds a dataset that passes validation, and an
\* entry is written only by a download with use_cache, under its own key, with
\* the non-empty dataset that it has just fetched and that passed validation.
C29_CacheHoldsValidatedFetches ==
    [][\A k \in Keys :
          /\ cache[k] # None => validate_ohlcv_data(cache[k][1].data).passed
          /\ cache'[k] # None => validate_ohlcv_data(cache'[k][1].data).passed
          /\ cache'[k] # cache[k] => PutOfValidatedFetch(k)]_vars

\* A download with use_cache false has persisted valid rows and left no entry
\* under its key, while an earlier download had put an entry under another key
C29_Witness ==
    \E t \in TaskIds :
        /\ ~tasks[t].use_cache
        /\ DoneThroughValid(tasks[t])
        /\ cache[RequestKey(t)] = None
        /\ \E k \in Keys : cache[k] # None

\* The last fetch of the request returned no row
EmptyFetched(tk) ==
    /\ Len(tk.fetchLog) >= 1
    /\ LastFetch(tk).raises = ""
    /\ LastFetch(tk).rows = <<>>

\* C30 as stated: when the gateway returns an empty result, the download returns
\* an absent dataset, has persisted nothing, has left the cache entry of its key
\* as it found it, and has invoked the gateway exactly once.
C30_EmptyExactlyOneFetch ==
    \A t \in TaskIds :
        EmptyFetched(tasks[t]) =>
            /\ tasks[t].pc = "returned"
            /\ tasks[t].ret[1].data = None
            /\ tasks[t].csvWrites = 0 /\ tasks[t].dbWrites = 0
            /\ tasks[t].puts = 0
            /\ cache[RequestKey(t)] = tasks[t].seen
            /\ tasks[t].fetches = 1

\* C30 amended: when the gateway returns an empty result, the download returns an
\* absent dataset in that attempt, which persists nothing (the writes of the
\* request are those of its earlier attempts) and leaves the cache entry of the
\* key as it found it; no further attempt or gateway invocation follows; when
\* the empty result comes on the first attempt, the gateway has been invoked
\* exactly once and nothing was persisted.
C30_EmptyNotPersistedNotRetried ==
    \A t \in TaskIds :
        EmptyFetched(tasks[t]) =>
            /\ tasks[t].pc = "returned"
            /\ tasks[t].err = ""
            /\ tasks[t].ret[1].data = None
            /\ tasks[t].csvWrites = NumValid(tasks[t])
            /\ tasks[t].dbWrites = NumValid(tasks[t])
            /\ tasks[t].puts = 0
            /\ cache[RequestKey(t)] = tasks[t].seen
            /\ tasks[t].fetches = Len(tasks[t].fetchLog)
            /\ tasks[t].fetches = tasks[t].attempt
            /\ tasks[t].attempt = 1 =>
                   /\ tasks[t].fetches = 1
                   /\ tasks[t].csvWrites = 0 /\ tasks[t].dbWrites = 0

\* The empty result came on the first attempt, with retries still allowed and a
\* stale entry under the key
C30_Witness ==
    \E t \in TaskIds :
        /\ EmptyFetched(tasks[t])
        /\ tasks[t].attempt = 1
        /\ max_retries >= 2
        /\ tasks[t].use_cache
        /\ tasks[t].seen # None

\* The call of async_download_trades has come back to its caller
TradesReturned == trades.pc = "returned"

\* The fetches of the call that failed
TradesFailedFetches ==
    {i \in 1..Len(trades.fetchLog) : trades.fetchLog[i].raises # ""}

\* What holds of a call of async_download_trades at every moment
TradesCallWithinBounds ==
    /\ trades.fetches <= max_retries
    /\ trades.fetches = Len(trades.fetchLog) + (IF trades.pc = "fetching" THEN 1 ELSE 0)
    /\ trades.attempt <= max_retries
    /\ ~trades.raised
    /\ trades.pc \in {"off", "fetching", "sleeping", "returned"}
    \* every fetch but the last failed: nothing follows a fetch that did not fail
    /\ \A i \in 1..(Len(trades.fetchLog) - 1) : trades.fetchLog[i].raises # ""
    \* never served from the cache: every attempt on a registered exchange fetches
    /\ (trades.pc # "off" /\ exchanges[trades.exchange_name].there) =>
           trades.fetches = trades.attempt
    /\ TradesReturned =>
         IF trades.ret = None
         THEN /\ trades.attempt = max_retries
              /\ Len(trades.waits) = max_retries
              /\ TradesFailedFetches = 1..Len(trades.fetchLog)
              /\ trades.saves = 0
         ELSE /\ trades.fetchLog # <<>>
              /\ trades.fetchLog[Len(trades.fetchLog)].raises = ""
              /\ trades.ret = Some(trades.fetchLog[Len(trades.fetchLog)].rows)
              /\ trades.saves = (IF trades.ret[1] # <<>> THEN 1 ELSE 0)
              /\ Len(trades.waits) = trades.attempt - 1
    /\ ~TradesReturned => trades.saves = 0 /\ trades.ret = None

\* C31: a call of async_download_trades issues at most max_retries fetches; it
\* returns the result of the first fetch that does not fail, handing it to
\* _save_data once when it is non-empty and never when it is empty, with no
\* attempt after it; it returns None after max_retries failed attempts; it
\* never raises; no step of it changes the cache and no attempt is answered
\* from the cache.
C31_TradesBoundedUncached ==
    [][/\ TradesCallWithinBounds
       /\ TradesCallWithinBounds'
       /\ trades' # trades => cache' = cache]_vars

\* A call that failed once and then returned trades, saved once, with a fresh
\* OHLCV entry in the cache
C31_Witness ==
    /\ TradesReturned
    /\ max_retries >= 2
    /\ trades.attempt = 2
    /\ trades.ret # None /\ trades.ret[1] # <<>>
    /\ trades.saves = 1
    /\ \E k \in Keys : cache[k] # None

\* download_multiple_symbols has returned to its caller
DmReturned == dm.pc = "returned"

\* Every symbol of the list has a download that ended, returned or raised
AllDownloadsEnded ==
    /\ Len(tasks) = Len(symbols)
    /\ \A t \in TaskIds : Terminal(tasks[t])

\* C32: with fair scheduling and fetches that end, a call of
\* download_multiple_symbols eventually returns, and when it has returned every
\* symbol's download has ended (returned or raised): no task is still in flight.
C32_BatchCallReturns ==
    /\ (dm.pc = "idle") ~> DmReturned
    /\ [](DmReturned => AllDownloadsEnded)

\* The call has returned after more than one batch, with a download that raised
\* and one that went through a retry
C32_Witness ==
    /\ DmReturned
    /\ Len(symbols) > batch_size
    /\ \E t \in TaskIds : tasks[t].pc = "raised"
    /\ \E t \in TaskIds : tasks[t].pc = "returned" /\ tasks[t].attempt >= 2

====
